---- MODULE Spec2Model ----
(***************************************************************************)
(* A model of src/maze.py: the union-find GoalGrid, the passage Grid, the  *)
(* constructor Maze.__init__ (a randomised Kruskal spanning-tree builder), *)
(* and the queries waysFrom, hasBlockAt, drawBlocks, compactToBlock and    *)
(* blockToCompact.                                                         *)
(*                                                                         *)
(* Python lists are modelled as functions over GridLocations (grids) or as *)
(* sequences (direction lists, strings).  random.shuffle(walls) can leave  *)
(* the candidates in any order, so the part of the shuffled list the       *)
(* for-loop has not reached yet is kept as a set and the loop takes any    *)
(* element of it next.                                                     *)
(*                                                                         *)
(* The docstring of Maze.__init__ (lines 194-195) is indented like its def *)
(* line; the model reads it as the first statement of the body.  Mazes are *)
(* indexed by m so that two constructions can be compared (SpecDet); Spec  *)
(* has the single maze 1.                                                  *)
(***************************************************************************)
EXTENDS Integers, Sequences, FiniteSets, TLC

VARIABLES
    maze,       \* maze[m]: the fields of Maze object m (width, height, blocksWidth, blocksHeight, wayGrid)
    goalGrid,   \* goalGrid[m]: GoalGrid.rows of the constructor's local goalGrid, Gone once it returns
    walls,      \* the candidates (x,y,w) of the shuffled list the for-loop has not reached yet
    cur,        \* the loop variables (x,y,w) of the current iteration
    g1,         \* g1[m]: the value of the left operand goalGrid[A] while the right one is evaluated
    pc,         \* pc[m]: the position of Maze.__init__ of maze m
    ret         \* the last query and the value it returned

vars == <<maze, goalGrid, walls, cur, g1, pc, ret>>

\* The largest number of compact cells (width * height) of a modelled maze.
MaxCells == 5

\* The largest number of cells of a GoalGrid used on its own (SpecUF).
MaxGoalCells == 4

----------------------------------------------------------------------------
(* Values *)

GridLocation(x, y) == [x |-> x, y |-> y]

\* Python's None
None == [none |-> TRUE]

\* ret before any query has been made
NoCall == [op |-> "none"]

\* The value of a local variable that is not live
Discarded == [discarded |-> TRUE]

\* The same for the locals that hold a list or a tuple (goalGrid's rows, the loop variables)
Gone == <<>>

GoalLocation(location) == [type |-> "GoalLocation", location |-> location]

CanAccess(to) == [type |-> "CanAccess", accessTo |-> to]

\* The index a Python list of length n reads for subscript i (negative subscripts count from the end)
PyIndex(i, n) == IF i < 0 THEN i + n ELSE i

Cells(width, height) == {GridLocation(i, j) : i \in 0..(width - 1), j \in 0..(height - 1)}

----------------------------------------------------------------------------
(* GoalGrid: union-find over compact locations *)

GoalGridInit(width, height) == [p \in Cells(width, height) |-> GoalLocation(p)]

\* A lookup that links p to the goal of its parent's parent only and returns that
Goal_half(rows, p, fuel) ==
    LET node == rows[p] IN
    IF node.type = "GoalLocation" THEN [goal |-> node.location, rows |-> rows]
    ELSE LET parent == rows[node.accessTo] IN
         IF parent.type = "GoalLocation" THEN [goal |-> parent.location, rows |-> rows]
         ELSE [goal |-> parent.accessTo,
               rows |-> [rows EXCEPT ![p] = CanAccess(parent.accessTo)]]

\* rows[p].goal(grid) with at most `fuel` nested calls: the goal and the rows
\* after path compression; goal is None when the calls do not return.
RECURSIVE Goal(_, _, _)
Goal(rows, p, fuel) ==
    LET node == rows[p] IN
    IF node.type = "GoalLocation" THEN [goal |-> node.location, rows |-> rows]
    ELSE IF fuel = 0 THEN [goal |-> None, rows |-> rows]
    ELSE LET r == Goal(rows, node.accessTo, fuel - 1) IN
         IF r.goal = None THEN r
         ELSE [goal |-> r.goal, rows |-> [r.rows EXCEPT ![p] = CanAccess(r.goal)]]

\* The Root the pointers lead to from p, followed without changing the rows
\* (None when they do not lead to a Root within `fuel` steps)
RECURSIVE Chase(_, _, _)
Chase(rows, p, fuel) ==
    IF rows[p].type = "GoalLocation" THEN p
    ELSE IF fuel = 0 THEN None
    ELSE Chase(rows, rows[p].accessTo, fuel - 1)

\* The representative of p's set
Rep(rows, p) == Chase(rows, p, Cardinality(DOMAIN rows))

\* GoalGrid.__getitem__
GoalGridGetItem(rows, p) == Goal(rows, p, Cardinality(DOMAIN rows))

\* setGoal pointing the cell of p1's goal at p1 instead of p2
setGoal_self(rows, p1, p2) ==
    LET r == GoalGridGetItem(rows, p1) IN
    IF r.goal = None THEN r.rows
    ELSE [r.rows EXCEPT ![r.goal] = CanAccess(p1)]

\* setGoal repointing the cell of p1 itself instead of the cell of p1's goal
setGoal_cell(rows, p1, p2) ==
    LET r == GoalGridGetItem(rows, p1) IN
    IF r.goal = None THEN r.rows
    ELSE [r.rows EXCEPT ![p1] = CanAccess(p2)]

\* setGoal storing the goal of p2 instead of p2 as given
setGoal_root(rows, p1, p2) ==
    LET r == GoalGridGetItem(rows, p1) IN
    IF r.goal = None THEN r.rows
    ELSE [r.rows EXCEPT ![r.goal] = CanAccess(Rep(r.rows, p2))]

\* GoalGrid.setGoal: the rows afterwards
setGoal(rows, p1, p2) ==
    LET r == GoalGridGetItem(rows, p1) IN
    IF r.goal = None THEN r.rows
    ELSE [r.rows EXCEPT ![r.goal] = CanAccess(p2)]

----------------------------------------------------------------------------
(* Grid: a two-dimensional grid indexed by GridLocations *)

GridInit(init, width, height) == [p \in Cells(width, height) |-> init]

GridWidth(grid) == Cardinality({p \in DOMAIN grid : p.y = 0})

GridHeight(grid) == Cardinality({p \in DOMAIN grid : p.x = 0})

\* Grid.__getitem__: self.grid[p.y][p.x], with Python's negative subscripts
GridGetItem(grid, p) ==
    grid[GridLocation(PyIndex(p.x, GridWidth(grid)), PyIndex(p.y, GridHeight(grid)))]

----------------------------------------------------------------------------
(* Maze.__init__ *)

\* The sizes (width, height) of the modelled mazes
Dims == {d \in (1..MaxCells) \X (1..MaxCells) : d[1] * d[2] <= MaxCells}

\* The list comprehension of candidates, as the set of its (distinct) elements
Walls(width, height) ==
    {<<i, j, w>> : i \in 0..(width - 1), j \in 0..(height - 1), w \in {"E", "S"}}

\* The fields of a Maze before the loop
MazeInit(width, height) ==
    [width        |-> width,
     height       |-> height,
     blocksWidth  |-> width * 2 + 1,
     blocksHeight |-> height * 2 + 1,
     wayGrid      |-> GridInit(<<>>, width, height)]

\* The cell of candidate c
CellOf(c) == GridLocation(c[1], c[2])

\* The neighbour candidate c leads to
NeighbourOf(c) ==
    IF c[3] = "E" THEN GridLocation(c[1] + 1, c[2]) ELSE GridLocation(c[1], c[2] + 1)

\* The bounds tests off by one: the last inner column and row get no candidate
HasNeighbour_offByOne(self, c) ==
    \/ c[3] = "E" /\ c[1] < self.width - 2
    \/ c[3] = "S" /\ c[2] < self.height - 2

\* The part of the two if-conditions evaluated before any goal lookup
HasNeighbour(self, c) ==
    \/ c[3] = "E" /\ c[1] < self.width - 1
    \/ c[3] = "S" /\ c[2] < self.height - 1

\* One goalGrid shared by every construction
Frame_shared(m) == 1

\* goalGrid = GoalGrid(width,height) is a local of the call: construction m has its own
Frame(m) == m

\* for (x,y,w) in walls: the next candidate of the shuffled list
NextWall ==
    /\ \A m \in DOMAIN pc : pc[m] = "for"
    /\ walls # {}
    /\ \E c \in walls :
        /\ cur' = c
        /\ walls' = walls \ {c}
    /\ pc' = [m \in DOMAIN pc |-> "if"]
    /\ UNCHANGED <<maze, goalGrid, g1, ret>>

\* Both conditions fail before any lookup: the neighbour is outside the grid
SkipWall(m) ==
    /\ pc[m] = "if"
    /\ ~HasNeighbour(maze[m], cur)
    /\ pc' = [pc EXCEPT ![m] = "for"]
    /\ UNCHANGED <<maze, goalGrid, walls, cur, g1, ret>>

\* The left operand goalGrid[GridLocation(x,y)]
LookupA(m) ==
    /\ pc[m] = "if"
    /\ HasNeighbour(maze[m], cur)
    /\ LET r == GoalGridGetItem(goalGrid[Frame(m)], CellOf(cur)) IN
        /\ goalGrid' = [goalGrid EXCEPT ![Frame(m)] = r.rows]
        /\ g1' = [g1 EXCEPT ![m] = r.goal]
        /\ pc' = [pc EXCEPT ![m] = IF r.goal = None THEN "raised" ELSE "rhs"]
    /\ UNCHANGED <<maze, walls, cur, ret>>

\* The comparison taken the wrong way round: equal goals lead to setGoal
LookupB_inverted(m) ==
    /\ pc[m] = "rhs"
    /\ LET r == GoalGridGetItem(goalGrid[Frame(m)], NeighbourOf(cur)) IN
        /\ goalGrid' = [goalGrid EXCEPT ![Frame(m)] = r.rows]
        /\ pc' = [pc EXCEPT ![m] = IF r.goal = None THEN "raised"
                                      ELSE IF g1[m] = r.goal THEN "setGoal" ELSE "for"]
    /\ g1' = [g1 EXCEPT ![m] = Discarded]
    /\ UNCHANGED <<maze, walls, cur, ret>>

\* The right operand goalGrid[neighbour] and the comparison
LookupB(m) ==
    /\ pc[m] = "rhs"
    /\ LET r == GoalGridGetItem(goalGrid[Frame(m)], NeighbourOf(cur)) IN
        /\ goalGrid' = [goalGrid EXCEPT ![Frame(m)] = r.rows]
        /\ pc' = [pc EXCEPT ![m] = IF r.goal = None THEN "raised"
                                      ELSE IF g1[m] = r.goal THEN "for" ELSE "setGoal"]
    /\ g1' = [g1 EXCEPT ![m] = Discarded]
    /\ UNCHANGED <<maze, walls, cur, ret>>

\* goalGrid.setGoal(GridLocation(x,y), neighbour)
SetGoal(m) ==
    /\ pc[m] = "setGoal"
    /\ goalGrid' = [goalGrid EXCEPT ![Frame(m)] = setGoal(@, CellOf(cur), NeighbourOf(cur))]
    /\ pc' = [pc EXCEPT ![m] =
                IF GoalGridGetItem(goalGrid[Frame(m)], CellOf(cur)).goal = None
                THEN "raised" ELSE "append"]
    /\ UNCHANGED <<maze, walls, cur, g1, ret>>

\* The append reaching every cell, as when all cells hold one shared list
AppendWay_all(m) ==
    /\ pc[m] = "append"
    /\ maze' = [maze EXCEPT ![m].wayGrid = [p \in DOMAIN @ |-> Append(@[p], cur[3])]]
    /\ pc' = [pc EXCEPT ![m] = "for"]
    /\ UNCHANGED <<goalGrid, walls, cur, g1, ret>>

\* The append made at the neighbour's cell instead of the candidate's
AppendWay_neighbour(m) ==
    /\ pc[m] = "append"
    /\ maze' = [maze EXCEPT ![m].wayGrid[NeighbourOf(cur)] = Append(@, cur[3])]
    /\ pc' = [pc EXCEPT ![m] = "for"]
    /\ UNCHANGED <<goalGrid, walls, cur, g1, ret>>

\* self.wayGrid[GridLocation(x,y)].append(w)
AppendWay(m) ==
    /\ pc[m] = "append"
    /\ maze' = [maze EXCEPT ![m].wayGrid[CellOf(cur)] = Append(@, cur[3])]
    /\ pc' = [pc EXCEPT ![m] = "for"]
    /\ UNCHANGED <<goalGrid, walls, cur, g1, ret>>

\* pc[m] = "raised": a goal lookup did not return (RecursionError) and
\* __init__ of maze m was left by the exception.

\* The loop left one candidate early
Return_early ==
    /\ \A m \in DOMAIN pc : pc[m] = "for"
    /\ Cardinality(walls) <= 1
    /\ pc' = [m \in DOMAIN pc |-> "done"]
    /\ goalGrid' = [m \in DOMAIN pc |-> Gone]
    /\ cur' = Gone
    /\ UNCHANGED <<maze, walls, g1, ret>>

\* The loop ends and __init__ returns: the local goalGrid is gone
Return ==
    /\ \A m \in DOMAIN pc : pc[m] = "for"
    /\ walls = {}
    /\ pc' = [m \in DOMAIN pc |-> "done"]
    /\ goalGrid' = [m \in DOMAIN pc |-> Gone]
    /\ cur' = Gone
    /\ UNCHANGED <<maze, walls, g1, ret>>

----------------------------------------------------------------------------
(* Coordinate conversion *)

compactToBlock(p) == GridLocation(p.x * 2 + 1, p.y * 2 + 1)

\* blockToCompact accepting a location with one odd coordinate
blockToCompact_or(p) ==
    IF p.x % 2 = 1 \/ p.y % 2 = 1 THEN GridLocation(p.x \div 2, p.y \div 2) ELSE None

blockToCompact(p) ==
    IF p.x % 2 = 1 /\ p.y % 2 = 1 THEN GridLocation(p.x \div 2, p.y \div 2) ELSE None

----------------------------------------------------------------------------
(* Queries of a constructed Maze *)

\* Python's `d in list`
In(d, list) == \E k \in 1..Len(list) : list[k] = d

\* waysFrom adding 'N' before 'W'
waysFrom_northFirst(self, p) ==
    IF p.x >= 0 /\ p.x < self.width /\ p.y >= 0 /\ p.y < self.height
    THEN LET own   == GridGetItem(self.wayGrid, p)
             north == IF p.y > 0 /\ In("S", GridGetItem(self.wayGrid, GridLocation(p.x, p.y - 1)))
                      THEN own \o <<"N">> ELSE own
         IN  IF p.x > 0 /\ In("E", GridGetItem(self.wayGrid, GridLocation(p.x - 1, p.y)))
             THEN north \o <<"W">> ELSE north
    ELSE <<>>

\* waysFrom looking for 'S' instead of 'E' in the cell to the west
waysFrom_westS(self, p) ==
    IF p.x >= 0 /\ p.x < self.width /\ p.y >= 0 /\ p.y < self.height
    THEN LET own  == GridGetItem(self.wayGrid, p)
             west == IF p.x > 0 /\ In("S", GridGetItem(self.wayGrid, GridLocation(p.x - 1, p.y)))
                     THEN own \o <<"W">> ELSE own
         IN  IF p.y > 0 /\ In("S", GridGetItem(self.wayGrid, GridLocation(p.x, p.y - 1)))
             THEN west \o <<"N">> ELSE west
    ELSE <<>>

\* waysFrom looking for 'E' instead of 'S' in the cell to the north
waysFrom_northE(self, p) ==
    IF p.x >= 0 /\ p.x < self.width /\ p.y >= 0 /\ p.y < self.height
    THEN LET own  == GridGetItem(self.wayGrid, p)
             west == IF p.x > 0 /\ In("E", GridGetItem(self.wayGrid, GridLocation(p.x - 1, p.y)))
                     THEN own \o <<"W">> ELSE own
         IN  IF p.y > 0 /\ In("E", GridGetItem(self.wayGrid, GridLocation(p.x, p.y - 1)))
             THEN west \o <<"N">> ELSE west
    ELSE <<>>

\* Maze.waysFrom
waysFrom(self, p) ==
    IF p.x >= 0 /\ p.x < self.width /\ p.y >= 0 /\ p.y < self.height
    THEN LET own  == GridGetItem(self.wayGrid, p)
             west == IF p.x > 0 /\ In("E", GridGetItem(self.wayGrid, GridLocation(p.x - 1, p.y)))
                     THEN own \o <<"W">> ELSE own
         IN  IF p.y > 0 /\ In("S", GridGetItem(self.wayGrid, GridLocation(p.x, p.y - 1)))
             THEN west \o <<"N">> ELSE west
    ELSE <<>>

\* hasBlockAt with the two passage letters exchanged
hasBlockAt_swapped(self, p) ==
    \/ p.x < 0
    \/ p.y < 0
    \/ p.x >= self.blocksWidth
    \/ p.y >= self.blocksHeight
    \/ (p.x % 2 = 0 /\ p.y % 2 = 0)
    \/ (/\ p.x % 2 = 0
        /\ p.y % 2 = 1
        /\ ~In("S", GridGetItem(self.wayGrid, GridLocation((p.x - 1) \div 2, p.y \div 2))))
    \/ (/\ p.x % 2 = 1
        /\ p.y % 2 = 0
        /\ ~In("E", GridGetItem(self.wayGrid, GridLocation(p.x \div 2, (p.y - 1) \div 2))))

\* hasBlockAt taking the odd/odd locations for the pillars
hasBlockAt_oddPillar(self, p) ==
    \/ p.x < 0
    \/ p.y < 0
    \/ p.x >= self.blocksWidth
    \/ p.y >= self.blocksHeight
    \/ (p.x % 2 = 1 /\ p.y % 2 = 1)
    \/ (/\ p.x % 2 = 0
        /\ p.y % 2 = 1
        /\ ~In("E", GridGetItem(self.wayGrid, GridLocation((p.x - 1) \div 2, p.y \div 2))))
    \/ (/\ p.x % 2 = 1
        /\ p.y % 2 = 0
        /\ ~In("S", GridGetItem(self.wayGrid, GridLocation(p.x \div 2, (p.y - 1) \div 2))))

\* Maze.hasBlockAt
hasBlockAt(self, p) ==
    \/ p.x < 0
    \/ p.y < 0
    \/ p.x >= self.blocksWidth
    \/ p.y >= self.blocksHeight
    \/ (p.x % 2 = 0 /\ p.y % 2 = 0)
    \/ (/\ p.x % 2 = 0
        /\ p.y % 2 = 1
        /\ ~In("E", GridGetItem(self.wayGrid, GridLocation((p.x - 1) \div 2, p.y \div 2))))
    \/ (/\ p.x % 2 = 1
        /\ p.y % 2 = 0
        /\ ~In("S", GridGetItem(self.wayGrid, GridLocation(p.x \div 2, (p.y - 1) \div 2))))

\* Maze.__drawRow: the characters written for row y
drawRow(self, y, block, space) ==
    [k \in 1..self.blocksWidth |->
        IF hasBlockAt(self, GridLocation(k - 1, y)) THEN block ELSE space]

\* The loop of Maze.drawBlocks: what is written for the rows y..blocksHeight-1
RECURSIVE drawRowsFrom(_, _, _, _)
drawRowsFrom(self, y, block, space) ==
    IF y >= self.blocksHeight THEN <<>>
    ELSE <<"\n">> \o drawRow(self, y, block, space) \o drawRowsFrom(self, y + 1, block, space)

\* drawBlocks writing the newline after every row instead of before rows 1..
RECURSIVE drawLinesFrom(_, _, _, _)
drawLinesFrom(self, y, block, space) ==
    IF y >= self.blocksHeight THEN <<>>
    ELSE drawRow(self, y, block, space) \o <<"\n">> \o drawLinesFrom(self, y + 1, block, space)

drawBlocks_trailingNewline(self, block, space) == drawLinesFrom(self, 0, block, space)

\* Maze.drawBlocks: the string returned, as the sequence of its characters
drawBlocks(self, block, space) ==
    drawRow(self, 0, block, space) \o drawRowsFrom(self, 1, block, space)

\* The locations the queries are called with: every block location and one beyond each side
QueryLocs(self) ==
    {GridLocation(x, y) : x \in (-1)..self.blocksWidth, y \in (-1)..self.blocksHeight}

\* The characters drawBlocks is called with
Chars == {"*", " "}

Constructed(m) == m \in DOMAIN pc /\ pc[m] = "done"

\* waysFrom extending the stored list itself (no [:] copy)
waysFromStored_alias(self, p) ==
    IF p.x >= 0 /\ p.x < self.width /\ p.y >= 0 /\ p.y < self.height
    THEN [self.wayGrid EXCEPT ![p] = waysFrom(self, p)]
    ELSE self.wayGrid

\* self.wayGrid after waysFrom(p): ways is a copy ([:]), so += leaves the stored list alone
waysFromStored(self, p) == self.wayGrid

CallWaysFrom(m) ==
    /\ Constructed(m)
    /\ \E p \in QueryLocs(maze[m]) :
        /\ ret' = [op |-> "waysFrom", m |-> m, p |-> p, val |-> waysFrom(maze[m], p)]
        /\ maze' = [maze EXCEPT ![m].wayGrid = waysFromStored(maze[m], p)]
    /\ UNCHANGED <<goalGrid, walls, cur, g1, pc>>

CallHasBlockAt(m) ==
    /\ Constructed(m)
    /\ \E p \in QueryLocs(maze[m]) :
        ret' = [op |-> "hasBlockAt", m |-> m, p |-> p, val |-> hasBlockAt(maze[m], p)]
    /\ UNCHANGED <<maze, goalGrid, walls, cur, g1, pc>>

CallDrawBlocks(m) ==
    /\ Constructed(m)
    /\ \E block \in Chars, space \in Chars :
        ret' = [op |-> "drawBlocks", m |-> m, block |-> block, space |-> space,
                val |-> drawBlocks(maze[m], block, space)]
    /\ UNCHANGED <<maze, goalGrid, walls, cur, g1, pc>>

CallCompactToBlock(m) ==
    /\ Constructed(m)
    /\ \E p \in QueryLocs(maze[m]) :
        ret' = [op |-> "compactToBlock", m |-> m, p |-> p, val |-> compactToBlock(p)]
    /\ UNCHANGED <<maze, goalGrid, walls, cur, g1, pc>>

CallBlockToCompact(m) ==
    /\ Constructed(m)
    /\ \E p \in QueryLocs(maze[m]) :
        ret' = [op |-> "blockToCompact", m |-> m, p |-> p, val |-> blockToCompact(p)]
    /\ UNCHANGED <<maze, goalGrid, walls, cur, g1, pc>>

Query(m) ==
    \/ CallWaysFrom(m)
    \/ CallHasBlockAt(m)
    \/ CallDrawBlocks(m)
    \/ CallCompactToBlock(m)
    \/ CallBlockToCompact(m)

----------------------------------------------------------------------------
(* Specifications *)

\* Maze(width, height) has run up to the loop, for the mazes ms built from one shuffled list
InitFor(ms) ==
    \E d \in Dims :
        /\ maze = [m \in ms |-> MazeInit(d[1], d[2])]
        /\ goalGrid = [m \in ms |-> GoalGridInit(d[1], d[2])]
        /\ walls = Walls(d[1], d[2])
        /\ cur = Gone
        /\ g1 = [m \in ms |-> Discarded]
        /\ pc = [m \in ms |-> "for"]
        /\ ret = NoCall

Init == InitFor({1})

Construct(m) ==
    \/ SkipWall(m)
    \/ LookupA(m)
    \/ LookupB(m)
    \/ SetGoal(m)
    \/ AppendWay(m)

\* The constructions, without the queries
Build ==
    \/ NextWall
    \/ Return
    \/ \E m \in DOMAIN pc : Construct(m)

Next ==
    \/ Build
    \/ \E m \in DOMAIN pc : Query(m)

Spec == Init /\ [][Next]_vars

\* One construction on its own, up to its return
SpecBuild == Init /\ [][Build]_vars

\* The constructor is straight-line code in one thread: it keeps running until it returns or raises
SpecLive == Init /\ [][Build]_vars /\ WF_vars(Build)

----------------------------------------------------------------------------
(* A GoalGrid used on its own: lookups and setGoal calls in any order *)

\* goalGrid[p]
CallGetItem(m) ==
    /\ pc[m] = "grid"
    /\ \E p \in DOMAIN goalGrid[m] :
        LET r == GoalGridGetItem(goalGrid[m], p) IN
        /\ goalGrid' = [goalGrid EXCEPT ![m] = r.rows]
        /\ ret' = [op |-> "goal", m |-> m, p |-> p, val |-> r.goal, before |-> goalGrid[m]]
    /\ UNCHANGED <<maze, walls, cur, g1, pc>>

\* goalGrid.setGoal(p1, p2)
CallSetGoal(m) ==
    /\ pc[m] = "grid"
    /\ \E p1 \in DOMAIN goalGrid[m], p2 \in DOMAIN goalGrid[m] :
        /\ goalGrid' = [goalGrid EXCEPT ![m] = setGoal(@, p1, p2)]
        /\ ret' = [op |-> "setGoal", m |-> m, p1 |-> p1, p2 |-> p2, before |-> goalGrid[m]]
    /\ UNCHANGED <<maze, walls, cur, g1, pc>>

\* The most rows of a GoalGrid used on its own
MaxGoalHeight == 2

\* The sizes of the GoalGrids used on their own
GoalDims == {d \in (1..MaxGoalCells) \X (1..MaxGoalHeight) : d[1] * d[2] <= MaxGoalCells}

\* GoalGrid(width, height) has been constructed
InitUF ==
    \E d \in GoalDims :
        /\ maze = [m \in {1} |-> MazeInit(d[1], d[2])]
        /\ goalGrid = [m \in {1} |-> GoalGridInit(d[1], d[2])]
        /\ walls = {}
        /\ cur = Gone
        /\ g1 = [m \in {1} |-> Discarded]
        /\ pc = [m \in {1} |-> "grid"]
        /\ ret = NoCall

NextUF ==
    \/ \E m \in DOMAIN pc : CallGetItem(m)
    \/ \E m \in DOMAIN pc : CallSetGoal(m)

SpecUF == InitUF /\ [][NextUF]_vars

\* Two mazes built from the same shuffled list, candidate by candidate
InitDet == InitFor({1, 2})

SpecDet == InitDet /\ [][Build]_vars

----------------------------------------------------------------------------
(* The passage graph of a maze *)

East(p) == GridLocation(p.x + 1, p.y)

South(p) == GridLocation(p.x, p.y + 1)

West(p) == GridLocation(p.x - 1, p.y)

North(p) == GridLocation(p.x, p.y - 1)

MazeCells(self) == Cells(self.width, self.height)

\* The recorded passages as undirected edges
PassageEdges(self) ==
    {{p, East(p)} : p \in {q \in MazeCells(self) : In("E", self.wayGrid[q])}}
    \cup {{p, South(p)} : p \in {q \in MazeCells(self) : In("S", self.wayGrid[q])}}

\* The cells reachable from the cells of S along the edges
RECURSIVE Closure(_, _)
Closure(S, edges) ==
    LET T == S \cup {q \in UNION edges : \E p \in S : {p, q} \in edges} IN
    IF T = S THEN S ELSE Closure(T, edges)

Reachable(self, p) == Closure({p}, PassageEdges(self))

RECURSIVE SumLen(_, _)
SumLen(grid, S) ==
    IF S = {} THEN 0
    ELSE LET p == CHOOSE q \in S : TRUE IN Len(grid[p]) + SumLen(grid, S \ {p})

\* The number of recorded passages, summed over all cells
NumPassages(self) == SumLen(self.wayGrid, MazeCells(self))

\* The connected components of the passage graph
Components(self) == {Reachable(self, p) \cap MazeCells(self) : p \in MazeCells(self)}

----------------------------------------------------------------------------
(* Properties *)

\* C1: once construction has finished, every compact cell is reachable from
\* every other cell along recorded East/South passages taken in both directions.
C1_Connected ==
    \A m \in DOMAIN pc :
        pc[m] = "done" =>
            \A p \in MazeCells(maze[m]), q \in MazeCells(maze[m]) : q \in Reachable(maze[m], p)

C1_Witness ==
    /\ pc[1] = "done"
    /\ maze[1].width = 2
    /\ maze[1].height = 2
    /\ Len(maze[1].wayGrid[GridLocation(0, 0)]) = 2

\* C2: the finished Passage Grid holds exactly W*H - 1 passages and they
\* contain no cycle (it is a forest: no passage is recorded twice and the
\* number of edges is the number of cells minus the number of components).
C2_Acyclic ==
    \A m \in DOMAIN pc :
        pc[m] = "done" =>
            LET self == maze[m] IN
            /\ NumPassages(self) = self.width * self.height - 1
            /\ Cardinality(PassageEdges(self)) = NumPassages(self)
            /\ Cardinality(PassageEdges(self))
                 = Cardinality(MazeCells(self)) - Cardinality(Components(self))

\* A 2x2 maze, where one of the four in-grid candidates has been rejected
C2_Witness ==
    /\ pc[1] = "done"
    /\ maze[1].width = 2
    /\ maze[1].height = 2
    /\ NumPassages(maze[1]) = 3

\* The four-case reference of hasBlockAt
RefHasBlockAt(self, p) ==
    LET above == GridLocation((p.x - 1) \div 2, (p.y - 2) \div 2)
        left  == GridLocation((p.x - 2) \div 2, (p.y - 1) \div 2)
    IN
    IF p.x < 0 \/ p.y < 0 \/ p.x >= self.blocksWidth \/ p.y >= self.blocksHeight THEN TRUE
    ELSE IF p.x % 2 = 0 /\ p.y % 2 = 0 THEN TRUE
    ELSE IF p.x % 2 = 1 /\ p.y % 2 = 0
         THEN ~(above \in MazeCells(self) /\ In("S", self.wayGrid[above]))
    ELSE IF p.x % 2 = 0 /\ p.y % 2 = 1
         THEN ~(left \in MazeCells(self) /\ In("E", self.wayGrid[left]))
    ELSE FALSE

\* C3: hasBlockAt agrees with the four-case reference at every block
\* location, inside or outside the grid.
C3_HasBlockAtCases ==
    ret.op = "hasBlockAt" => ret.val = RefHasBlockAt(maze[ret.m], ret.p)

\* hasBlockAt has answered for an open wall position between two cells
C3_Witness ==
    /\ ret.op = "hasBlockAt"
    /\ ret.p.x % 2 = 0
    /\ ret.p.y % 2 = 1
    /\ ret.val = FALSE

\* C4: hasBlockAt(compactToBlock(p)) is false for every compact p of the grid.
C4_RoomNeverBlock ==
    (ret.op = "hasBlockAt" /\ \E p \in MazeCells(maze[ret.m]) : ret.p = compactToBlock(p))
        => ret.val = FALSE

C4_Witness ==
    /\ ret.op = "hasBlockAt"
    /\ ret.p = compactToBlock(GridLocation(1, 1))
    /\ GridLocation(1, 1) \in MazeCells(maze[ret.m])

\* The reference of waysFrom
RefWaysFrom(self, p) ==
    IF p \notin MazeCells(self) THEN <<>>
    ELSE self.wayGrid[p]
         \o (IF West(p) \in MazeCells(self) /\ In("E", self.wayGrid[West(p)])
             THEN <<"W">> ELSE <<>>)
         \o (IF North(p) \in MazeCells(self) /\ In("S", self.wayGrid[North(p)])
             THEN <<"N">> ELSE <<>>)

\* C5: waysFrom(p) is empty outside the grid; inside it is p's stored
\* passages in recorded order, then 'W' exactly when the west cell has East,
\* then 'N' exactly when the north cell has South.
C5_WaysFrom ==
    ret.op = "waysFrom" => ret.val = RefWaysFrom(maze[ret.m], ret.p)

\* waysFrom has answered for a cell entered from the west and from the north
C5_Witness ==
    /\ ret.op = "waysFrom"
    /\ ret.val = <<"W", "N">>

\* C6: 'E' is in waysFrom(p) iff 'W' is in waysFrom(p + (1,0)), and 'S' is
\* in waysFrom(p) iff 'N' is in waysFrom(p + (0,1)), for every p of the grid.
C6_Symmetric ==
    (ret.op = "waysFrom" /\ ret.p \in MazeCells(maze[ret.m])) =>
        /\ In("E", ret.val) <=> In("W", waysFrom(maze[ret.m], East(ret.p)))
        /\ In("S", ret.val) <=> In("N", waysFrom(maze[ret.m], South(ret.p)))

C6_Witness ==
    /\ ret.op = "waysFrom"
    /\ In("E", ret.val)
    /\ In("S", ret.val)

\* One step from p in direction d
Step(p, d) ==
    IF d = "N" THEN North(p) ELSE IF d = "E" THEN East(p)
    ELSE IF d = "S" THEN South(p) ELSE West(p)

\* C7: for every compact p of the grid and every direction d, d is in
\* waysFrom(p) iff there is no block one step in direction d from compactToBlock(p).
C7_ViewsAgree ==
    (ret.op = "waysFrom" /\ ret.p \in MazeCells(maze[ret.m])) =>
        \A d \in {"N", "E", "S", "W"} :
            In(d, ret.val) <=> ~hasBlockAt(maze[ret.m], Step(compactToBlock(ret.p), d))

\* waysFrom has answered for a cell on the west border that is open to the south
C7_Witness ==
    /\ ret.op = "waysFrom"
    /\ ret.p = GridLocation(0, 0)
    /\ In("S", ret.val)
    /\ ~In("E", ret.val)

\* C8: drawBlocks yields blocksHeight rows of blocksWidth characters joined
\* by newlines, no trailing newline; the character of row y, column x is
\* block where hasBlockAt((x,y)) and space elsewhere; a 1x1 maze is a ring.
C8_DrawBlocks ==
    ret.op = "drawBlocks" =>
        LET self == maze[ret.m]
            bw   == 2 * self.width + 1
            bh   == 2 * self.height + 1
            s    == ret.val
        IN
        /\ Len(s) = bh * bw + (bh - 1)
        /\ \A y \in 0..(bh - 1), x \in 0..(bw - 1) :
            s[y * (bw + 1) + x + 1]
                = IF hasBlockAt(self, GridLocation(x, y)) THEN ret.block ELSE ret.space
        /\ \A y \in 1..(bh - 1) : s[y * (bw + 1)] = "\n"
        /\ (self.width = 1 /\ self.height = 1 /\ ret.block = "*" /\ ret.space = " ")
            => s = <<"*", "*", "*", "\n", "*", " ", "*", "\n", "*", "*", "*">>

C8_Witness ==
    /\ ret.op = "drawBlocks"
    /\ maze[ret.m].width = 2
    /\ maze[ret.m].height = 2
    /\ ret.block = "*"
    /\ ret.space = " "

C11_NoPointerCycle ==
    \A m \in DOMAIN pc :
        pc[m] # "done" =>
            \A p \in DOMAIN goalGrid[m] : Rep(goalGrid[m], p) # None

\* A chain of two pointers exists right after a setGoal
C11_Witness ==
    /\ pc[1] = "append"
    /\ \E p \in DOMAIN goalGrid[1] :
        /\ goalGrid[1][p].type = "CanAccess"
        /\ goalGrid[1][goalGrid[1][p].accessTo].type = "CanAccess"

\* C12: setGoal(p1, p2) for p1 and p2 already in one set (p1 = p2 too) is a
\* no-op in effect: afterwards every cell still resolves, in finitely many
\* steps, to the representative it resolved to before the call.
C12_SameSetNoOp ==
    (/\ ret.op = "setGoal"
     /\ Rep(ret.before, ret.p1) # None
     /\ Rep(ret.before, ret.p1) = Rep(ret.before, ret.p2))
        => \A q \in DOMAIN ret.before : Rep(goalGrid[ret.m], q) = Rep(ret.before, q)

\* C13: a lookup goalGrid[p] returns p's representative, leaves the
\* representative of every cell as it was, changes only Pointers and only
\* to point at their representative, and repeated at once returns the same.
C13_LookupKeepsPartition ==
    ret.op = "goal" =>
        LET rows == goalGrid[ret.m] IN
        /\ ret.val = Rep(ret.before, ret.p)
        /\ \A q \in DOMAIN rows : Rep(rows, q) = Rep(ret.before, q)
        /\ \A q \in DOMAIN rows :
            rows[q] # ret.before[q] =>
                /\ ret.before[q].type = "CanAccess"
                /\ rows[q] = CanAccess(Rep(ret.before, q))
        /\ GoalGridGetItem(rows, ret.p).goal = ret.val

\* A lookup has compressed a path
C13_Witness ==
    /\ ret.op = "goal"
    /\ ret.val # None
    /\ goalGrid[ret.m][ret.p] # ret.before[ret.p]

\* C14: when goal(p1) # goal(p2), setGoal(p1, p2) turns exactly one Root,
\* that of p1's set, into a Pointer holding p2 as given; afterwards the
\* cells of both sets resolve to p2's former representative and every other
\* cell keeps its representative.
C14_Union ==
    (/\ ret.op = "setGoal"
     /\ Rep(ret.before, ret.p1) # None
     /\ Rep(ret.before, ret.p2) # None
     /\ Rep(ret.before, ret.p1) # Rep(ret.before, ret.p2))
        => LET rows == goalGrid[ret.m]
               r1   == Rep(ret.before, ret.p1)
               r2   == Rep(ret.before, ret.p2)
           IN
           /\ rows[r1] = CanAccess(ret.p2)
           /\ {q \in DOMAIN rows : ret.before[q].type # rows[q].type} = {r1}
           /\ \A q \in DOMAIN rows :
                Rep(rows, q) = IF Rep(ret.before, q) \in {r1, r2} THEN r2
                               ELSE Rep(ret.before, q)

\* Two sets of two cells have been united through a p2 that is not a Root
C14_Witness ==
    /\ ret.op = "setGoal"
    /\ Rep(ret.before, ret.p1) # None
    /\ Rep(ret.before, ret.p2) # None
    /\ Rep(ret.before, ret.p1) # Rep(ret.before, ret.p2)
    /\ ret.before[ret.p1].type = "CanAccess"
    /\ ret.before[ret.p2].type = "CanAccess"

\* What one step of construction m does to the current candidate (x,y,dir)
C15_Step(m) ==
    LET A     == CellOf(cur)
        B     == NeighbourOf(cur)
        cells == MazeCells(maze[m])
        rows  == goalGrid[m]
    IN
    \* a candidate is dropped without a lookup exactly when its neighbour is outside the grid
    /\ (pc[m] = "if" /\ pc'[m] # "if") =>
        /\ pc'[m] = "for" <=> B \notin cells
        /\ pc'[m] = "for" => (maze' = maze /\ goalGrid' = goalGrid)
    \* the comparison: equal goals drop the candidate, different goals go on to setGoal
    /\ (pc[m] = "rhs" /\ pc'[m] # "rhs") =>
        IF Rep(rows, A) = Rep(rows, B)
        THEN /\ pc'[m] = "for"
             /\ maze' = maze
             /\ \A q \in cells : Rep(goalGrid'[m], q) = Rep(rows, q)
        ELSE pc'[m] = "setGoal"
    \* the first candidate inside the grid is never dropped
    /\ (pc[m] = "rhs" /\ pc'[m] # "rhs" /\ NumPassages(maze[m]) = 0) => pc'[m] = "setGoal"
    \* setGoal unites the two sets
    /\ (pc[m] = "setGoal" /\ pc'[m] # "setGoal") =>
        /\ pc'[m] = "append"
        /\ \A q \in cells :
            Rep(goalGrid'[m], q) = IF Rep(rows, q) \in {Rep(rows, A), Rep(rows, B)}
                                   THEN Rep(rows, B) ELSE Rep(rows, q)
    \* dir is recorded at A
    /\ (pc[m] = "append" /\ pc'[m] # "append") =>
        /\ pc'[m] = "for"
        /\ maze'[m].wayGrid = [maze[m].wayGrid EXCEPT ![A] = Append(@, cur[3])]
    \* width 2, height 1: exactly one passage, East at (0,0)
    /\ (pc'[m] = "done" /\ maze[m].width = 2 /\ maze[m].height = 1) =>
        maze'[m].wayGrid = [q \in cells |-> IF q = GridLocation(0, 0) THEN <<"E">> ELSE <<>>]

\* C15: a candidate whose neighbour is inside the grid is recorded at A and
\* the two sets are united if goal(A) # goal(B) when its turn comes, and
\* is dropped with partition and passages unchanged if goal(A) = goal(B);
\* a candidate whose neighbour is outside the grid records nothing; the
\* first in-grid candidate is always recorded (2x1: exactly East at (0,0)).
C15_CandidateHandling == [][\A m \in DOMAIN pc : C15_Step(m)]_vars

\* A candidate inside the grid has just been dropped
C15_Witness ==
    /\ pc[1] = "for"
    /\ cur # Gone
    /\ HasNeighbour(maze[1], cur)
    /\ ~In(cur[3], maze[1].wayGrid[CellOf(cur)])

\* C16: over every step the Passage Grid only grows: what a cell holds
\* stays as a prefix of what it holds next, a cell holds only 'E' and 'S',
\* each at most once, and a step that records at one cell leaves the
\* directions of every other cell unchanged.
C16_PassagesOnlyGrow ==
    [][\A m \in DOMAIN maze :
        LET old == maze[m].wayGrid
            new == maze'[m].wayGrid
        IN
        \A p \in DOMAIN old :
            /\ Len(new[p]) >= Len(old[p])
            /\ SubSeq(new[p], 1, Len(old[p])) = old[p]
            /\ \A k \in 1..Len(new[p]) : new[p][k] \in {"E", "S"}
            /\ \A j \in 1..Len(new[p]), k \in 1..Len(new[p]) : new[p][j] = new[p][k] => j = k
            /\ new[p] # old[p] => \A q \in DOMAIN old \ {p} : new[q] = old[q]]_vars

\* During a construction a cell holds two directions and another holds one
C16_Witness ==
    /\ pc[1] = "for"
    /\ walls # {}
    /\ \E p \in MazeCells(maze[1]), q \in MazeCells(maze[1]) :
        Len(maze[1].wayGrid[p]) = 2 /\ Len(maze[1].wayGrid[q]) = 1

\* C17: every construction returns; each of the 2*W*H candidates is taken
\* from the list exactly once (one per iteration, none twice, none left at
\* the return) and no goal lookup fails to return.
C17_Terminates ==
    /\ <>(\A m \in DOMAIN pc : pc[m] = "done")
    /\ [][/\ walls' # walls => (cur' \in walls /\ walls' = walls \ {cur'})
          /\ (\A m \in DOMAIN pc : pc[m] = "for" /\ pc'[m] = "if") => walls' # walls
          /\ (\A m \in DOMAIN pc : pc'[m] = "done") => walls' = {}
          /\ \A m \in DOMAIN pc : pc'[m] # "raised"]_vars

\* A 2x2 construction has returned with all eight candidates taken
C17_Witness ==
    /\ pc[1] = "done"
    /\ walls = {}
    /\ Cardinality(Walls(maze[1].width, maze[1].height)) = 2 * 2 * 2
    /\ maze[1].width = 2

\* The last query, made again now, returns what it returned
C18_SameAnswer ==
    /\ ret.op = "waysFrom" => waysFrom(maze[ret.m], ret.p) = ret.val
    /\ ret.op = "hasBlockAt" => hasBlockAt(maze[ret.m], ret.p) = ret.val
    /\ ret.op = "drawBlocks" => drawBlocks(maze[ret.m], ret.block, ret.space) = ret.val

Roots(rows) == {p \in DOMAIN rows : rows[p].type = "GoalLocation"}

\* C19: between candidate steps of a construction, two cells have the same
\* representative exactly when recorded passages connect them, and the
\* number of Roots is W*H minus the number of recorded passages.
C19_PartitionMirrorsPassages ==
    \A m \in DOMAIN pc :
        pc[m] = "for" =>
            LET self == maze[m]
                rows == goalGrid[m]
            IN
            /\ \A p \in MazeCells(self) :
                LET reached == Reachable(self, p)
                    rep == Rep(rows, p)
                IN \A q \in MazeCells(self) : Rep(rows, q) = rep <=> q \in reached
            /\ Cardinality(Roots(rows)) = self.width * self.height - NumPassages(self)

\* Half-way through a 2x2 construction: two passages, two sets
C19_Witness ==
    /\ pc[1] = "for"
    /\ walls # {}
    /\ maze[1].width = 2
    /\ maze[1].height = 2
    /\ NumPassages(maze[1]) = 2
    /\ Cardinality(Roots(goalGrid[1])) = 2

\* The block locations on the outer border
Border(self) ==
    {p \in QueryLocs(self) :
        /\ p.x >= 0 /\ p.x < self.blocksWidth /\ p.y >= 0 /\ p.y < self.blocksHeight
        /\ (p.x = 0 \/ p.x = 2 * self.width \/ p.y = 0 \/ p.y = 2 * self.height)}

\* C20: every finished maze is enclosed: hasBlockAt is true at every block
\* location of the outer border; no cell of the last column holds East and
\* no cell of the last row holds South (the cells the lookups for x = 0 and
\* y = 0 read through index -1).
C20_Enclosed ==
    /\ (ret.op = "hasBlockAt" /\ ret.p \in Border(maze[ret.m])) => ret.val = TRUE
    /\ \A m \in DOMAIN pc :
        pc[m] = "done" =>
            \A p \in MazeCells(maze[m]) :
                /\ p.x = maze[m].width - 1 => ~In("E", maze[m].wayGrid[p])
                /\ p.y = maze[m].height - 1 => ~In("S", maze[m].wayGrid[p])

\* hasBlockAt has answered for the west border of a row whose first cell is open to the east
C20_Witness ==
    /\ ret.op = "hasBlockAt"
    /\ ret.p = GridLocation(0, 1)
    /\ ret.val = TRUE
    /\ In("E", maze[ret.m].wayGrid[GridLocation(0, 0)])

====
